---- MODULE Spec2Model ----
(***************************************************************************)
(* A model of src/app.py, the Streamlit front end that validates package   *)
(* specs and runs micromamba dry-run solves behind st.cache_data.          *)
(*                                                                         *)
(* Text is modelled as a sequence of one-character strings, so that        *)
(* strip, lower, startswith, split and the regular expression of           *)
(* validate_package are computed character by character.                   *)
(***************************************************************************)
EXTENDS Naturals, Integers, Sequences, FiniteSets, TLC

(***************************************************************************)
(* Program constants (src/app.py:17-40)                                    *)
(***************************************************************************)
ALLOWED_CHANNELS == <<"conda-forge", "bioconda", "defaults">>
ALLOWED_PLATFORMS ==
    <<"linux-64", "linux-aarch64", "linux-ppc64le", "osx-64", "osx-arm64", "win-64">>
ALLOWED_PRIORITIES == <<"strict", "flexible", "disabled">>
TTL == 3600
MAX_CHARS_PER_LINE == 50
MAX_LINES_PER_REQUEST == 25
STATEFUL_KEYS == <<"platform", "channels", "packages", "priority", "glibc", "cuda", "osx">>

Range(f) == {f[i] : i \in DOMAIN f}

(***************************************************************************)
(* Characters                                                              *)
(***************************************************************************)
LowerLetters ==
    <<"a","b","c","d","e","f","g","h","i","j","k","l","m",
      "n","o","p","q","r","s","t","u","v","w","x","y","z">>
UpperLetters ==
    <<"A","B","C","D","E","F","G","H","I","J","K","L","M",
      "N","O","P","Q","R","S","T","U","V","W","X","Y","Z">>
Digits == <<"0","1","2","3","4","5","6","7","8","9">>
Whitespace == {" ", "\t"}

\* the character class of the regular expression at src/app.py:258
AllowedChars ==
    Range(LowerLetters) \cup Range(UpperLetters) \cup Range(Digits)
    \cup {"_", "-", ".", "*", "=", "!", ">", "<", ",", "|", ";", "[", "]", "/"}

\* str.swapcase() on one character
SwapCaseChar(c) ==
    IF \E i \in DOMAIN UpperLetters : UpperLetters[i] = c
    THEN LowerLetters[CHOOSE i \in DOMAIN UpperLetters : UpperLetters[i] = c]
    ELSE IF \E i \in DOMAIN LowerLetters : LowerLetters[i] = c
    THEN UpperLetters[CHOOSE i \in DOMAIN LowerLetters : LowerLetters[i] = c]
    ELSE c

\* str.lower() on one character
LowerChar(c) ==
    IF \E i \in DOMAIN UpperLetters : UpperLetters[i] = c
    THEN LowerLetters[CHOOSE i \in DOMAIN UpperLetters : UpperLetters[i] = c]
    ELSE c

lower(s) == [i \in DOMAIN s |-> LowerChar(s[i])]

\* str.strip(): drop leading and trailing whitespace
RECURSIVE lstrip(_)
lstrip(s) ==
    IF s # <<>> /\ Head(s) \in Whitespace THEN lstrip(Tail(s)) ELSE s

RECURSIVE rstrip(_)
rstrip(s) ==
    IF s # <<>> /\ s[Len(s)] \in Whitespace
    THEN rstrip(SubSeq(s, 1, Len(s) - 1))
    ELSE s

strip(s) == rstrip(lstrip(s))

startswith(s, p) == Len(s) >= Len(p) /\ SubSeq(s, 1, Len(p)) = p

\* positions at which sub occurs in s
Occurrences(s, sub) ==
    {i \in 1..(Len(s) - Len(sub) + 1) : SubSeq(s, i, i + Len(sub) - 1) = sub}

\* the Python test `sub in s`
Contains(s, sub) == Occurrences(s, sub) # {}

Min(S) == CHOOSE x \in S : \A y \in S : x <= y

\* s.split(sep)[0]: the text before the first occurrence of sep
SplitFirst(s, sep) ==
    IF Contains(s, sep) THEN SubSeq(s, 1, Min(Occurrences(s, sep)) - 1) ELSE s

\* re.match(r"^[...]+$", s) on a line without line breaks
MatchesAllowed(s) == s # <<>> /\ \A i \in DOMAIN s : s[i] \in AllowedChars

(***************************************************************************)
(* The texts the model names: Chars gives the characters of a name.        *)
(***************************************************************************)
Chars(name) ==
    CASE name = "conda-forge" -> <<"c","o","n","d","a","-","f","o","r","g","e">>
      [] name = "bioconda"    -> <<"b","i","o","c","o","n","d","a">>
      [] name = "defaults"    -> <<"d","e","f","a","u","l","t","s">>
      [] name = ""            -> <<>>
      [] name = "numpy"       -> <<"n","u","m","p","y">>
      [] name = "Numpy"       -> <<"N","u","m","p","y">>
      [] name = "python=3"    -> <<"p","y","t","h","o","n","=","3">>
      [] name = " python=3"   -> <<" ","p","y","t","h","o","n","=","3">>
      [] name = "# numpy"     -> <<"#"," ","n","u","m","p","y">>
      [] name = "--file=x"    -> <<"-","-","f","i","l","e","=","x">>
      [] name = "a b"         -> <<"a"," ","b">>
      [] name = "a"           -> <<"a">>
      [] name = "2.17"        -> <<"2",".","1","7">>
      [] name = "12.0"        -> <<"1","2",".","0">>
      [] name = "11.0"        -> <<"1","1",".","0">>
      [] name = "1"           -> <<"1">>
      [] name = "1;x"         -> <<"1",";","x">>
      [] name = "conda-forge::numpy" ->
            <<"c","o","n","d","a","-","f","o","r","g","e",":",":","n","u","m","p","y">>
      [] name = "evil::numpy" -> <<"e","v","i","l",":",":","n","u","m","p","y">>
      [] name = "linux-64"    -> <<"l","i","n","u","x","-","6","4">>
      [] name = "linux-aarch64" -> <<"l","i","n","u","x","-","a","a","r","c","h","6","4">>
      [] name = "linux-ppc64le" -> <<"l","i","n","u","x","-","p","p","c","6","4","l","e">>
      [] name = "osx-64"      -> <<"o","s","x","-","6","4">>
      [] name = "osx-arm64"   -> <<"o","s","x","-","a","r","m","6","4">>
      [] name = "win-64"      -> <<"w","i","n","-","6","4">>
      [] name = "freebsd-64"  -> <<"f","r","e","e","b","s","d","-","6","4">>
      [] name = "evil"        -> <<"e","v","i","l">>
      [] name = "Could not solve for environment specs" ->
            <<"C","o","u","l","d"," ","n","o","t"," ","s","o","l","v","e"," ","f","o","r"," ","e","n","v","i","r","o","n","m","e","n","t"," ","s","p","e","c","s">>
      [] name = "error    libmamba Could not solve for environment specs" ->
            <<"e","r","r","o","r"," "," "," "," ","l","i","b","m","a","m","b","a"," ","C","o","u","l","d"," ","n","o","t"," ","s","o","l","v","e"," ","f","o","r"," ","e","n","v","i","r","o","n","m","e","n","t"," ","s","p","e","c","s">>
      [] name = "The following package could not be installed" ->
            <<"T","h","e"," ","f","o","l","l","o","w","i","n","g"," ","p","a","c","k","a","g","e"," ","c","o","u","l","d"," ","n","o","t"," ","b","e"," ","i","n","s","t","a","l","l","e","d">>
      [] name = "The following package could not be installed  " ->
            <<"T","h","e"," ","f","o","l","l","o","w","i","n","g"," ","p","a","c","k","a","g","e"," ","c","o","u","l","d"," ","n","o","t"," ","b","e"," ","i","n","s","t","a","l","l","e","d"," "," ">>
      [] name = "critical libmamba Could not solve for environment specs" ->
            <<"c","r","i","t","i","c","a","l"," ","l","i","b","m","a","m","b","a"," ","C","o","u","l","d"," ","n","o","t"," ","s","o","l","v","e"," ","f","o","r"," ","e","n","v","i","r","o","n","m","e","n","t"," ","s","p","e","c","s">>
      [] name = "warning  libmamba Cache file expired" ->
            <<"w","a","r","n","i","n","g"," "," ","l","i","b","m","a","m","b","a"," ","C","a","c","h","e"," ","f","i","l","e"," ","e","x","p","i","r","e","d">>

\* every text of the table
KnownTexts ==
    {"conda-forge", "bioconda", "defaults", "",
     "numpy", "Numpy", "python=3", " python=3", "# numpy", "--file=x", "a b", "a",
     "2.17", "12.0", "11.0", "1", "1;x", "conda-forge::numpy", "evil::numpy",
     "linux-64", "linux-aarch64", "linux-ppc64le",
     "osx-64", "osx-arm64", "win-64", "freebsd-64", "evil",
     "Could not solve for environment specs",
     "error    libmamba Could not solve for environment specs",
     "The following package could not be installed",
     "The following package could not be installed  ",
     "critical libmamba Could not solve for environment specs",
     "warning  libmamba Cache file expired"}

\* the name of a text of the table
Name(chars) == CHOOSE n \in KnownTexts : Chars(n) = chars

\* the literals of validate_package and of the sidebar
Hash == <<"#">>
Space == <<" ">>
Dash == <<"-">>
Star == <<"*">>
DoubleColon == <<":", ":">>
UrlSchemes ==
    { <<"h","t","t","p",":","/","/">>, <<"h","t","t","p","s",":","/","/">>,
      <<"f","i","l","e",":","/","/">>, <<"f","t","p",":","/","/">>,
      <<"s","3",":","/","/">> }
LinuxPrefix == <<"l","i","n","u","x","-">>
OsxPrefix == <<"o","s","x","-">>
WinPrefix == <<"w","i","n","-">>

AllowedChannelChars == {Chars(ALLOWED_CHANNELS[i]) : i \in DOMAIN ALLOWED_CHANNELS}

(***************************************************************************)
(* validate_package (src/app.py:237-260).  The result is                   *)
(*   [kind |-> "none"]                 the bare `return` (blank, comment)  *)
(*   [kind |-> "ok", line |-> l]       the normalised line                 *)
(*   [kind |-> "error", reason |-> r]  a ValueError                        *)
(***************************************************************************)
NoLine == [kind |-> "none"]
OkLine(l) == [kind |-> "ok", line |-> l]
Rejected(r) == [kind |-> "error", reason |-> r]

validate_package_NoRegex(raw) ==
    LET line == lower(strip(raw)) IN
    IF startswith(line, Hash) THEN NoLine
    ELSE IF line = <<>> THEN NoLine
    ELSE IF Len(line) > MAX_CHARS_PER_LINE THEN Rejected("Line too long.")
    ELSE IF Contains(line, Space) THEN Rejected("Spaces not allowed in package spec")
    ELSE IF Contains(line, DoubleColon)
            /\ SplitFirst(line, DoubleColon) \notin AllowedChannelChars
        THEN Rejected("Specified channel is not allowed.")
    ELSE IF startswith(line, Dash) THEN Rejected("Invalid package spec")
    ELSE IF \E u \in UrlSchemes : startswith(lower(line), u)
        THEN Rejected("URLs not allowed")
    ELSE IF startswith(line, Star) THEN Rejected("Wildcards not allowed")
    ELSE OkLine(line)

validate_package(raw) ==
    LET line == lower(strip(raw)) IN
    IF startswith(line, Hash) THEN NoLine
    ELSE IF line = <<>> THEN NoLine
    ELSE IF Len(line) > MAX_CHARS_PER_LINE THEN Rejected("Line too long.")
    ELSE IF Contains(line, Space) THEN Rejected("Spaces not allowed in package spec")
    ELSE IF Contains(line, DoubleColon)
            /\ SplitFirst(line, DoubleColon) \notin AllowedChannelChars
        THEN Rejected("Specified channel is not allowed.")
    ELSE IF startswith(line, Dash) THEN Rejected("Invalid package spec")
    ELSE IF \E u \in UrlSchemes : startswith(lower(line), u)
        THEN Rejected("URLs not allowed")
    ELSE IF startswith(line, Star) THEN Rejected("Wildcards not allowed")
    ELSE IF ~ MatchesAllowed(line) THEN Rejected("Invalid characters in package spec")
    ELSE OkLine(line)

(***************************************************************************)
(* sorted(): Python orders strings by code point, character by character.  *)
(***************************************************************************)
AsciiOrder ==
    <<"\t", " ", "!", "#", "*", ",", "-", ".", "/",
      "0","1","2","3","4","5","6","7","8","9", ":", ";", "<", "=", ">", "@",
      "A","B","C","D","E","F","G","H","I","J","K","L","M",
      "N","O","P","Q","R","S","T","U","V","W","X","Y","Z", "[", "]", "_",
      "a","b","c","d","e","f","g","h","i","j","k","l","m",
      "n","o","p","q","r","s","t","u","v","w","x","y","z", "|">>

Ord(c) == CHOOSE i \in DOMAIN AsciiOrder : AsciiOrder[i] = c

\* a < b for two texts given by their characters
CharsLess(a, b) ==
    \E i \in 1..(Len(b)) :
        /\ i <= Len(a) + 1
        /\ SubSeq(a, 1, i - 1) = SubSeq(b, 1, i - 1)
        /\ (i = Len(a) + 1 \/ Ord(a[i]) < Ord(b[i]))

TextLess(x, y) == CharsLess(Chars(x), Chars(y))

\* insert x into the sorted sequence s, after its equals (sorted is stable)
RECURSIVE Insert(_, _)
Insert(s, x) ==
    IF s = <<>> THEN <<x>>
    ELSE IF TextLess(x, Head(s)) THEN <<x>> \o s
    ELSE <<Head(s)>> \o Insert(Tail(s), x)

\* a list left in the order it came in
Unsorted(s) == s

RECURSIVE sorted(_)
sorted(s) ==
    IF s = <<>> THEN <<>> ELSE Insert(sorted(SubSeq(s, 1, Len(s) - 1)), s[Len(s)])

(***************************************************************************)
(* validate_packages (src/app.py:263-275) on the lines of a request, each  *)
(* a text of the table.  The result is [kind |-> "ok", pkgs |-> ...] or    *)
(* [kind |-> "error", reason |-> ...].                                     *)
(***************************************************************************)
\* validate_package on each line of the request
EachLine(packages) == [i \in DOMAIN packages |-> validate_package(Chars(packages[i]))]

\* the loop of src/app.py:268-275, given what validate_package made of each line:
\* the first ValueError, or the lines it returned
Collect(res) ==
    LET bad == {i \in DOMAIN res : res[i].kind = "error"}
        good == SelectSeq(res, LAMBDA r : r.kind = "ok")
    IN  IF bad # {} THEN Rejected(res[Min(bad)].reason)
        ELSE IF good = <<>> THEN Rejected("No valid packages specified.")
        ELSE [kind |-> "ok", pkgs |-> [i \in DOMAIN good |-> Name(good[i].line)]]

validate_packages_NoLimit(packages) == Collect(EachLine(packages))

validate_packages(packages) ==
    IF Len(packages) > MAX_LINES_PER_REQUEST
    THEN Rejected("Too many packages requested. Maximum is 25. ")
    ELSE Collect(EachLine(packages))

(***************************************************************************)
(* URL parameters and session state.  A parameter map and the session      *)
(* state are functions from the keys present to their values.  The         *)
(* `channels` parameter is held as the list value.split(",") gives and     *)
(* the `packages` parameter as the list of its lines; <<>> is the empty    *)
(* string of either.                                                       *)
(***************************************************************************)
DEFAULT_STATE ==
    [platform |-> "linux-64", priority |-> "strict",
     glibc |-> "2.17", cuda |-> "12.0", osx |-> "11.0"]

NoParams == [k \in {} |-> ""]

ListKeys == {"channels", "packages"}

\* Python truth of a parameter or state value
Truthy(key, value) == IF key \in ListKeys THEN value # <<>> ELSE value # ""

\* list(dict.fromkeys(l)): the first occurrence of each element, in order
RECURSIVE Dedupe(_)
Dedupe(l) ==
    IF l = <<>> THEN <<>>
    ELSE LET init == Dedupe(SubSeq(l, 1, Len(l) - 1))
         IN  IF l[Len(l)] \in Range(init) THEN init ELSE Append(init, l[Len(l)])

\* re.match(r"^[0-9\.]+$", value)
MatchesVersion(value) ==
    LET s == Chars(value)
    IN  s # <<>> /\ \A i \in DOMAIN s : s[i] \in Range(Digits) \cup {"."}

\* the st.error, if any, that parse_url_params raises for a truthy value
ParamError_NoPlatformCheck(key, value) ==
    CASE key = "channels" /\ \E c \in Range(Dedupe(value)) : c \notin Range(ALLOWED_CHANNELS)
            -> "Invalid channel"
      [] key = "priority" /\ value \notin Range(ALLOWED_PRIORITIES)
            -> "Invalid channel priority"
      [] key \in {"glibc", "cuda", "osx"} /\ ~ MatchesVersion(value)
            -> "Invalid value"
      [] key = "packages" /\ Len(value) > MAX_LINES_PER_REQUEST
            -> "Too many packages requested. Maximum is 25."
      [] OTHER -> "none"

ParamError(key, value) ==
    CASE key = "channels" /\ \E c \in Range(Dedupe(value)) : c \notin Range(ALLOWED_CHANNELS)
            -> "Invalid channel"
      [] key = "platform" /\ value \notin Range(ALLOWED_PLATFORMS)
            -> "Invalid platform"
      [] key = "priority" /\ value \notin Range(ALLOWED_PRIORITIES)
            -> "Invalid channel priority"
      [] key \in {"glibc", "cuda", "osx"} /\ ~ MatchesVersion(value)
            -> "Invalid value"
      [] key = "packages" /\ Len(value) > MAX_LINES_PER_REQUEST
            -> "Too many packages requested. Maximum is 25."
      [] OTHER -> "none"

\* the stateful keys the URL gives a truthy value for
Offered(url) == {k \in Range(STATEFUL_KEYS) \cap DOMAIN url : Truthy(k, url[k])}

ParsedFrom(url, offered) ==
    LET taken == {k \in offered : ParamError(k, url[k]) = "none"}
    IN  [parsed  |-> [k \in taken |-> IF k = "channels" THEN Dedupe(url[k]) ELSE url[k]],
         invalid |-> DOMAIN url \ taken,
         errors  |-> {ParamError(k, url[k]) : k \in offered} \ {"none"}]

\* parse_url_params (src/app.py:278-318): the parsed values, the parameters left
\* over (`url_params` after the pops) and the errors shown
parse_url_params(url) == ParsedFrom(url, Offered(url))

InitializeFrom(p, state) ==
    LET fresh == {k \in Range(STATEFUL_KEYS) \ DOMAIN state :
                    k \in DOMAIN p.parsed \cup DOMAIN DEFAULT_STATE}
    IN  IF p.invalid # {}
        THEN [state |-> state, error |-> TRUE,
              errors |-> p.errors \cup {"Invalid URL params"}]
        ELSE [state |-> [k \in DOMAIN state \cup fresh |->
                            IF k \in DOMAIN state THEN state[k]
                            ELSE IF k \in DOMAIN p.parsed THEN p.parsed[k]
                            ELSE DEFAULT_STATE[k]],
              error |-> FALSE, errors |-> p.errors]

\* initialize_state (src/app.py:321-334): the session state it leaves, whether it
\* returned True, and the errors shown
initialize_state(url, state) == InitializeFrom(parse_url_params(url), state)

(***************************************************************************)
(* The sidebar (src/app.py:343-383).  A widget with a key shows the value  *)
(* the session state holds for the key, or else its default, which it      *)
(* then stores under the key.                                              *)
(***************************************************************************)
WidgetDefaults ==
    [platform |-> ALLOWED_PLATFORMS[1], channels |-> <<>>, packages |-> <<>>,
     priority |-> ALLOWED_PRIORITIES[1],
     cuda |-> DEFAULT_STATE.cuda, glibc |-> DEFAULT_STATE.glibc, osx |-> DEFAULT_STATE.osx]

WidgetValue(state, key) == IF key \in DOMAIN state THEN state[key] ELSE WidgetDefaults[key]

PlatformStartsWith(platform, prefix) == startswith(Chars(platform), prefix)

\* the keyed widgets the script renders for a platform
Rendered(platform) ==
    {"platform", "channels", "packages", "priority"}
    \cup (IF PlatformStartsWith(platform, LinuxPrefix) \/ PlatformStartsWith(platform, WinPrefix)
          THEN {"cuda"} ELSE {})
    \cup (IF PlatformStartsWith(platform, LinuxPrefix) THEN {"glibc"}
          ELSE IF PlatformStartsWith(platform, OsxPrefix) THEN {"osx"} ELSE {})

\* the session state once the widgets have run
AfterWidgets(state) ==
    LET keys == Rendered(WidgetValue(state, "platform"))
    IN  [k \in DOMAIN state \cup keys |-> WidgetValue(state, k)]

\* the virtual_packages dict of src/app.py:367-380
VirtualPackages(state) ==
    LET platform == WidgetValue(state, "platform")
        cuda == IF PlatformStartsWith(platform, LinuxPrefix) \/ PlatformStartsWith(platform, WinPrefix)
                THEN [k \in {"cuda"} |-> WidgetValue(state, "cuda")] ELSE NoParams
        rest == IF PlatformStartsWith(platform, LinuxPrefix)
                THEN [k \in {"linux", "glibc"} |->
                        IF k = "linux" THEN "1" ELSE WidgetValue(state, "glibc")]
                ELSE IF PlatformStartsWith(platform, OsxPrefix)
                THEN [k \in {"osx"} |-> WidgetValue(state, "osx")]
                ELSE IF PlatformStartsWith(platform, WinPrefix)
                THEN [k \in {"win"} |-> "1"]
                ELSE NoParams
    IN  cuda @@ rest

\* packages.strip() is not empty
TextNotBlank(lines) == \E i \in DOMAIN lines : strip(Chars(lines[i])) # <<>>

\* all([platform, channels, packages.strip()])
Enabled(state) ==
    /\ WidgetValue(state, "platform") # ""
    /\ WidgetValue(state, "channels") # <<>>
    /\ TextNotBlank(WidgetValue(state, "packages"))

NoCall == [kind |-> "none"]

\* st.experimental_set_query_params of src/app.py:391-397
SolveQueryParams(platform, channels, specs, priority, vp) ==
    LET vkeys == {k \in DOMAIN vp \cap Range(STATEFUL_KEYS) : vp[k] # ""}
    IN  [k \in {"platform", "channels", "packages", "priority"} \cup vkeys |->
            CASE k = "platform" -> platform
              [] k = "channels" -> channels
              [] k = "packages" -> specs
              [] k = "priority" -> priority
              [] OTHER -> vp[k]]

(***************************************************************************)
(* One run of the script up to the call of solve (src/app.py:340-405):     *)
(* the session state and the URL it leaves, the messages it shows, and     *)
(* the arguments of the solve call, if it makes one.                       *)
(***************************************************************************)
\* src/app.py:385-405, given the specs validate_packages returned or its error
ScriptSolve(init, st, url, valid, vp) ==
    IF valid.kind = "error"
    THEN [state |-> st, url |-> url, call |-> NoCall,
          shown |-> init.errors \cup {valid.reason}]
    ELSE [state |-> st,
          url |-> SolveQueryParams(st.platform, st.channels, valid.pkgs, st.priority, vp),
          call |-> [kind |-> "solve", packages |-> sorted(valid.pkgs),
                    channels |-> st.channels, platform |-> st.platform,
                    priority |-> st.priority, virtual_packages |-> vp],
          shown |-> init.errors]

\* src/app.py:382-440, given the session state the widgets left
ScriptBody(init, st, url, ok) ==
    IF ok \/ Enabled(st)
    THEN ScriptSolve(init, st, url, validate_packages(st.packages), VirtualPackages(st))
    ELSE IF init.error
    THEN [state |-> st, url |-> url, call |-> NoCall,
          shown |-> init.errors \cup {"There were errors initializing the app."}]
    ELSE [state |-> st, url |-> NoParams, call |-> NoCall,
          shown |-> init.errors \cup {"Use the left sidebar to specify your input."}]

ScriptWidgets(init, url, ok) == ScriptBody(init, AfterWidgets(init.state), url, ok)

Script(state, url, ok) == ScriptWidgets(initialize_state(url, state), url, ok)

(***************************************************************************)
(* st.cache_data(ttl=TTL) (src/app.py:81, 104).  A cache is a set of       *)
(* entries [key, value, msgs, createdAt], at most one for a key; msgs are  *)
(* the st.* messages of the cached call, which a hit shows again.  An      *)
(* entry is served while now - createdAt < TTL.                            *)
(***************************************************************************)
Fresh_Forever(entry, time) == TRUE

Fresh(entry, time) == time - entry.createdAt < TTL

CacheRead(cache, key, time) == {e \in cache : e.key = key /\ Fresh(e, time)}

CacheWrite(cache, key, value, msgs, time) ==
    {e \in cache : e.key # key /\ Fresh(e, time)}
    \cup {[key |-> key, value |-> value, msgs |-> msgs, createdAt |-> time]}

\* the arguments st.cache_data hashes for solve, as the script passes them
SolveKey(c) == <<c.packages, c.channels, c.platform, c.priority, c.virtual_packages>>

\* the arguments of a refresh_repodata(channels, platform)
RefreshKey_Unsorted(c) == <<c.channels, c.platform>>

\* the arguments of refresh_repodata(sorted(channels), platform) (src/app.py:112)
RefreshKey(c) == <<sorted(c.channels), c.platform>>

(***************************************************************************)
(* Command lines (src/app.py:83-97, 113-129) and environment (130-133)     *)
(***************************************************************************)
RECURSIVE ChannelArgs(_)
ChannelArgs(channels) ==
    IF channels = <<>> THEN <<>>
    ELSE <<"--channel", Head(channels)>> \o ChannelArgs(Tail(channels))

RefreshCmd(channels, platform) ==
    <<"micromamba", "create", "--dry-run", "--name", "test", "--repodata-ttl",
      ToString(TTL), "--platform", platform, "--override-channels", "xz">>
    \o ChannelArgs(channels)

\* a command line with the specs ahead of the channels
SolveCmd_SpecsFirst(c) ==
    <<"micromamba", "create", "--dry-run", "--name", "test", "--repodata-ttl",
      ToString(TTL), "--platform", c.platform, "--override-channels",
      "--channel-priority", c.priority>>
    \o c.packages \o ChannelArgs(c.channels)

SolveCmd(c) ==
    <<"micromamba", "create", "--dry-run", "--name", "test", "--repodata-ttl",
      ToString(TTL), "--platform", c.platform, "--override-channels",
      "--channel-priority", c.priority>>
    \o ChannelArgs(c.channels) \o c.packages

\* os.environ of the server process
AmbientEnv == [k \in {"PATH", "HOME"} |-> IF k = "PATH" THEN "/usr/bin" ELSE "/home/app"]

\* "CONDA_OVERRIDE_" + k.upper()
OverrideVar(k) ==
    CASE k = "cuda"  -> "CONDA_OVERRIDE_CUDA"
      [] k = "glibc" -> "CONDA_OVERRIDE_GLIBC"
      [] k = "linux" -> "CONDA_OVERRIDE_LINUX"
      [] k = "osx"   -> "CONDA_OVERRIDE_OSX"
      [] k = "win"   -> "CONDA_OVERRIDE_WIN"

\* an environment that sets the override of every virtual package, empty or not
SolveEnv_SetsEmpty(vp) ==
    [n \in {OverrideVar(k) : k \in DOMAIN vp} |->
        vp[CHOOSE k \in DOMAIN vp : OverrideVar(k) = n]] @@ AmbientEnv

SolveEnv(vp) ==
    LET keys == {k \in DOMAIN vp : vp[k] # ""}
    IN  [n \in {OverrideVar(k) : k \in keys} |->
            vp[CHOOSE k \in keys : OverrideVar(k) = n]] @@ AmbientEnv

(***************************************************************************)
(* What a subprocess can do: exit with output, run into the timeout        *)
(* (TimeoutExpired), or fail to start (OSError).                           *)
(***************************************************************************)
Exit(rc, out, err) == [kind |-> "exit", returncode |-> rc, stdout |-> out, stderr |-> err]
TimedOut == [kind |-> "timeout"]
NotStarted == [kind |-> "oserror"]

JsonSuccess == "{\"success\": true, \"actions\": {\"LINK\": []}}"
JsonConflict == "{\"success\": false, \"solver_problems\": [\"nothing provides x\"]}"
JsonOther == "{\"success\": false}"
JsonList == "[]"
NotJson == "Killed"

\* json.loads on the outputs above: a JSONDecodeError, or the value
json_loads(stdout) ==
    CASE stdout = JsonSuccess ->
            [decoded |-> TRUE, dict |-> TRUE,
             value |-> [success |-> TRUE, actions |-> [LINK |-> <<>>]]]
      [] stdout = JsonConflict ->
            [decoded |-> TRUE, dict |-> TRUE,
             value |-> [success |-> FALSE, solver_problems |-> <<"nothing provides x">>]]
      [] stdout = JsonOther ->
            [decoded |-> TRUE, dict |-> TRUE, value |-> [success |-> FALSE]]
      [] stdout = JsonList ->
            [decoded |-> TRUE, dict |-> FALSE, value |-> <<>>]
      [] OTHER -> [decoded |-> FALSE]

Marker == "Could not solve for environment specs"

\* a scan that does not stop at the second marker line, only skips it
ScanStderr_NoBreak(lines, error_lines) ==
    LET marked == {i \in DOMAIN lines : Contains(rstrip(Chars(lines[i])), Chars(Marker))}
    IN  IF marked = {} THEN error_lines
        ELSE [none |-> FALSE,
              lines |-> [i \in 1..(Len(lines) - Min(marked)) |->
                            Name(rstrip(Chars(lines[i + Min(marked)])))]]

\* the loop of src/app.py:161-170 over the remaining lines; error_lines is
\* [none |-> TRUE] for None, else [none |-> FALSE, lines |-> ...]
RECURSIVE ScanStderr(_, _)
ScanStderr(lines, error_lines) ==
    IF lines = <<>> THEN error_lines
    ELSE LET line == rstrip(Chars(Head(lines)))
         IN  IF Contains(line, Chars(Marker))
             THEN IF error_lines.none
                  THEN ScanStderr(Tail(lines), [none |-> FALSE, lines |-> <<>>])
                  ELSE error_lines
             ELSE IF ~ error_lines.none
             THEN ScanStderr(Tail(lines),
                             [none |-> FALSE, lines |-> Append(error_lines.lines, Name(line))])
             ELSE ScanStderr(Tail(lines), error_lines)

\* "\n".join(lines): the lines with a line break between each two
RECURSIVE Join(_)
Join(lines) ==
    IF lines = <<>> THEN <<>>
    ELSE IF Len(lines) = 1 THEN lines
    ELSE <<Head(lines), "\n">> \o Join(Tail(lines))

\* result.get("solver_problems") is truthy
HasProblems(value) ==
    "solver_problems" \in DOMAIN value /\ value.solver_problems # <<>>

\* the messages of src/app.py:416-432 for a result of solve
Display(value) ==
    IF "success" \in DOMAIN value /\ value.success THEN {"Results table"}
    ELSE IF HasProblems(value) THEN {"Solver could not find a solution!"}
    ELSE {"Unknown error. Check the full JSON result below."}

(***************************************************************************)
(* State                                                                   *)
(***************************************************************************)
VARIABLES
    vline,          \* the input of a function that is run on its own
    vres,           \* what the function made of it
    now,            \* the clock, in seconds
    ticks,          \* how often the clock has been advanced
    solve_cache,    \* the st.cache_data cache of solve
    refresh_cache,  \* the st.cache_data cache of refresh_repodata
    pc,             \* where each session's script run stands
    session_state,  \* st.session_state of each session
    url_params,     \* the query parameters of each session's URL
    call,           \* the arguments of the run's solve call
    proc,           \* the subprocess the run is waiting for
    completed,      \* `p`: how the run's last subprocess ended
    partial,        \* solve's `result` while the second subprocess runs
    result,         \* what solve returned to the run, and when
    raised,         \* the exception that ended the run's solve call
    shown,          \* the messages the run has put on the page
    launched,       \* the subprocesses the run has started, in order
    runs            \* script runs so far

vars == <<vline, vres, now, ticks, solve_cache, refresh_cache, pc, session_state,
          url_params, call, proc, completed, partial, result, raised, shown,
          launched, runs>>

Sessions == {"s1", "s2"}

MaxRuns == 3
MaxTicks == 1
MaxLineLen == 3

Pending == [kind |-> "pending"]
NoResult == [kind |-> "none"]
NoProc == [kind |-> "none"]
NoPartial == [kind |-> "none"]
Computing == {"refresh_wait", "refresh_run", "primary_run", "secondary_run"}

Set(f, s, v) == [f EXCEPT ![s] = v]

\* the messages a cached solve shows again on a hit: those of the calls inside it
CachedMessages == {"Failed to refresh repodata!"}

\* the per-key lock st.cache_data takes around the computation of a missing value
SolveLockFree_NoLock(s) == TRUE

SolveLockFree(s) ==
    ~ \E o \in Sessions \ {s} :
        pc[o] \in Computing /\ SolveKey(call[o]) = SolveKey(call[s])

RefreshLockFree(s) ==
    ~ \E o \in Sessions \ {s} :
        pc[o] = "refresh_run" /\ RefreshKey(call[o]) = RefreshKey(call[s])

(***************************************************************************)
(* Steps of a script run                                                   *)
(***************************************************************************)
\* the script has run from the top to the call of solve, with outcome r:
\* st.cache_data reads solve's cache
StartRunWith(s, r) ==
    LET hit == IF r.call.kind = "solve"
               THEN CacheRead(solve_cache, SolveKey(r.call), now) ELSE {}
    IN  /\ runs < MaxRuns
        /\ runs' = runs + 1
        /\ session_state' = Set(session_state, s, r.state)
        /\ url_params' = Set(url_params, s, r.url)
        /\ call' = Set(call, s, r.call)
        /\ launched' = Set(launched, s, <<>>)
        /\ raised' = Set(raised, s, "none")
        /\ IF r.call.kind = "none"
           THEN /\ pc' = Set(pc, s, "idle")
                /\ result' = Set(result, s, NoResult)
                /\ shown' = Set(shown, s, r.shown)
           ELSE IF hit # {}
           THEN LET e == CHOOSE e \in hit : TRUE
                IN  /\ pc' = Set(pc, s, "idle")
                    /\ result' = Set(result, s, [kind |-> "value", value |-> e.value, at |-> now])
                    /\ shown' = Set(shown, s, r.shown \cup e.msgs \cup Display(e.value))
           ELSE /\ pc' = Set(pc, s, "solve_wait")
                /\ result' = Set(result, s, NoResult)
                /\ shown' = Set(shown, s, r.shown)
        /\ completed' = Set(completed, s, NoProc)
        /\ UNCHANGED <<vline, vres, now, ticks, solve_cache, refresh_cache, proc, partial>>

StartRun(s, state, url, ok) == StartRunWith(s, Script(state, url, ok))

\* run(...) of the main solve, src/app.py:135-137, after refresh_repodata has
\* shown msgs and left the refresh cache as rcache; p is how the refresh
\* subprocess ended, if one ran
LaunchPrimary(s, msgs, rcache, p) ==
    /\ pc' = Set(pc, s, "primary_run")
    /\ proc' = Set(proc, s, [kind |-> "primary",
                              argv |-> SolveCmd(call[s]) \o <<"--json">>,
                              env |-> SolveEnv(call[s].virtual_packages),
                              t0 |-> now])
    /\ launched' = Set(launched, s, Append(launched[s], "primary"))
    /\ shown' = Set(shown, s, shown[s] \cup msgs)
    /\ refresh_cache' = rcache
    /\ completed' = Set(completed, s, p)
    /\ UNCHANGED <<vline, vres, now, ticks, solve_cache, session_state, url_params,
                   call, partial, result, raised, runs>>

\* solve returns value: st.cache_data stores it, the script shows it (416-432)
Returned(s, value, p) ==
    /\ solve_cache' = CacheWrite(solve_cache, SolveKey(call[s]), value,
                                 shown[s] \cap CachedMessages, now)
    /\ result' = Set(result, s, [kind |-> "value", value |-> value, at |-> now])
    /\ shown' = Set(shown, s, shown[s] \cup Display(value))
    /\ pc' = Set(pc, s, "idle")
    /\ proc' = Set(proc, s, NoProc)
    /\ partial' = Set(partial, s, NoPartial)
    /\ completed' = Set(completed, s, p)
    /\ UNCHANGED <<vline, vres, now, ticks, refresh_cache, session_state, url_params,
                   call, raised, launched, runs>>

\* a solve that answers an exception with a result of its own
Raised_AsFailure(s, exc, p) == Returned(s, [success |-> FALSE, stdout |-> "", stderr |-> exc], p)

\* a cache that keeps the exception of a call like a result
Raised_Cached(s, exc, p) ==
    /\ solve_cache' = CacheWrite(solve_cache, SolveKey(call[s]),
                                 [success |-> FALSE, error |-> exc], {}, now)
    /\ raised' = Set(raised, s, exc)
    /\ shown' = Set(shown, s, shown[s] \cup
                    {IF exc = "TimeoutExpired" THEN "Solver timed out." ELSE "Unknown error!"})
    /\ pc' = Set(pc, s, "idle")
    /\ proc' = Set(proc, s, NoProc)
    /\ partial' = Set(partial, s, NoPartial)
    /\ completed' = Set(completed, s, p)
    /\ UNCHANGED <<vline, vres, now, ticks, refresh_cache, session_state,
                   url_params, call, result, launched, runs>>

\* solve raises exc: nothing is stored, the script reports it and stops (406-414)
Raised(s, exc, p) ==
    /\ raised' = Set(raised, s, exc)
    /\ shown' = Set(shown, s, shown[s] \cup
                    {IF exc = "TimeoutExpired" THEN "Solver timed out." ELSE "Unknown error!"})
    /\ pc' = Set(pc, s, "idle")
    /\ proc' = Set(proc, s, NoProc)
    /\ partial' = Set(partial, s, NoPartial)
    /\ completed' = Set(completed, s, p)
    /\ UNCHANGED <<vline, vres, now, ticks, solve_cache, refresh_cache, session_state,
                   url_params, call, result, launched, runs>>

(***************************************************************************)
(* Actions                                                                 *)
(***************************************************************************)
\* a browser opens the app at a URL: a new session, and its first script run
Open(s, urls) ==
    /\ pc[s] = "closed"
    /\ \E u \in urls : StartRun(s, NoParams, u, FALSE)

\* the user changes one sidebar widget, which runs the script again
SetWidget(s, choices) ==
    /\ pc[s] = "idle"
    /\ \E k \in DOMAIN choices \cap DOMAIN session_state[s] :
         \E v \in choices[k] :
            /\ k \in Rendered(session_state[s].platform)
            /\ v # session_state[s][k]
            /\ StartRun(s, [session_state[s] EXCEPT ![k] = v], url_params[s], FALSE)

\* the user presses "Run solve", which is enabled when the last run found
\* all required fields filled
ClickRunSolve(s) ==
    /\ pc[s] = "idle"
    /\ Enabled(session_state[s])
    /\ StartRun(s, session_state[s], url_params[s], TRUE)

\* a solve that starts its subprocess without calling refresh_repodata first
EnterSolve_NoRefresh(s) ==
    /\ pc[s] \in {"solve_wait", "solve_blocked"}
    /\ SolveLockFree(s)
    /\ LaunchPrimary(s, {}, refresh_cache, completed[s])

\* st.cache_data on a miss of solve: take the key's lock, read the cache again,
\* and else run solve, which begins with refresh_repodata (src/app.py:112)
EnterSolve(s) ==
    /\ pc[s] \in {"solve_wait", "solve_blocked"}
    /\ SolveLockFree(s)
    /\ LET hit == CacheRead(solve_cache, SolveKey(call[s]), now)
           rhit == CacheRead(refresh_cache, RefreshKey(call[s]), now)
       IN  IF hit # {}
           THEN LET e == CHOOSE e \in hit : TRUE
                IN  /\ pc' = Set(pc, s, "idle")
                    /\ result' = Set(result, s, [kind |-> "value", value |-> e.value, at |-> now])
                    /\ shown' = Set(shown, s, shown[s] \cup e.msgs \cup Display(e.value))
                    /\ UNCHANGED <<vline, vres, now, ticks, solve_cache, refresh_cache,
                                   session_state, url_params, call, proc, completed,
                                   partial, raised, launched, runs>>
           ELSE IF rhit # {}
           THEN LaunchPrimary(s, (CHOOSE e \in rhit : TRUE).msgs, refresh_cache, completed[s])
           ELSE /\ pc' = Set(pc, s, "refresh_wait")
                /\ UNCHANGED <<vline, vres, now, ticks, solve_cache, refresh_cache,
                               session_state, url_params, call, proc, completed, partial,
                               result, raised, shown, launched, runs>>

\* st.cache_data on a miss of solve finds the key's lock taken: the run waits
Block(s) ==
    /\ pc[s] = "solve_wait"
    /\ ~ SolveLockFree(s)
    /\ pc' = Set(pc, s, "solve_blocked")
    /\ UNCHANGED <<vline, vres, now, ticks, solve_cache, refresh_cache, session_state,
                   url_params, call, proc, completed, partial, result, raised, shown,
                   launched, runs>>

\* st.cache_data on a miss of refresh_repodata: take the key's lock, read the
\* cache again, and else start the refresh subprocess (src/app.py:83-99)
EnterRefresh(s) ==
    /\ pc[s] = "refresh_wait"
    /\ RefreshLockFree(s)
    /\ LET rhit == CacheRead(refresh_cache, RefreshKey(call[s]), now)
       IN  IF rhit # {}
           THEN LaunchPrimary(s, (CHOOSE e \in rhit : TRUE).msgs, refresh_cache, completed[s])
           ELSE /\ pc' = Set(pc, s, "refresh_run")
                /\ proc' = Set(proc, s,
                       [kind |-> "refresh",
                        argv |-> RefreshCmd(sorted(call[s].channels), call[s].platform),
                        env |-> AmbientEnv, t0 |-> now])
                /\ launched' = Set(launched, s, Append(launched[s], "refresh"))
                /\ UNCHANGED <<vline, vres, now, ticks, solve_cache, refresh_cache,
                               session_state, url_params, call, completed, partial,
                               result, raised, shown, runs>>

\* how subprocess `of` ended: the CompletedProcess, or the exception of run()
Ended(of, o) == ("of" :> of) @@ o

\* a refresh that gives up the request when its subprocess fails
RefreshDone_Abort(s, outcomes) ==
    /\ pc[s] = "refresh_run"
    /\ \E o \in outcomes :
         IF o.kind = "timeout" THEN Raised(s, "TimeoutExpired", Ended("refresh", o))
         ELSE IF o.kind = "oserror" THEN Raised(s, "OSError", Ended("refresh", o))
         ELSE IF o.returncode # 0 THEN Raised(s, "CalledProcessError", Ended("refresh", o))
         ELSE LaunchPrimary(s, {},
                  CacheWrite(refresh_cache, RefreshKey(call[s]), "None", {}, now),
                  Ended("refresh", o))

\* the refresh subprocess ends (src/app.py:99-101), and solve goes on to its own
RefreshDone(s, outcomes) ==
    /\ pc[s] = "refresh_run"
    /\ \E o \in outcomes :
         IF o.kind = "timeout" THEN Raised(s, "TimeoutExpired", Ended("refresh", o))
         ELSE IF o.kind = "oserror" THEN Raised(s, "OSError", Ended("refresh", o))
         ELSE LET msgs == IF o.returncode # 0 THEN {"Failed to refresh repodata!"} ELSE {}
              IN  LaunchPrimary(s, msgs,
                      CacheWrite(refresh_cache, RefreshKey(call[s]), "None", msgs, now),
                      Ended("refresh", o))

\* the dict of src/app.py:142-150
Failure(s, o) ==
    [success |-> FALSE, stdout |-> o.stdout, stderr |-> o.stderr,
     returncode |-> o.returncode, cmd |-> SolveCmd(call[s]),
     virtual_packages |-> call[s].virtual_packages,
     stats |-> [time_taken |-> now - proc[s].t0]]

\* run(...) of src/app.py:154-160
LaunchSecondary(s, res, p) ==
    /\ pc' = Set(pc, s, "secondary_run")
    /\ proc' = Set(proc, s, [kind |-> "secondary",
                              argv |-> SolveCmd(call[s]) \o <<"--quiet">>,
                              env |-> SolveEnv(call[s].virtual_packages),
                              t0 |-> now])
    /\ partial' = Set(partial, s, [kind |-> "value", value |-> res])
    /\ launched' = Set(launched, s, Append(launched[s], "secondary"))
    /\ completed' = Set(completed, s, p)
    /\ UNCHANGED <<vline, vres, now, ticks, solve_cache, refresh_cache, session_state,
                   url_params, call, result, raised, shown, runs>>

\* src/app.py:151-173, for the dict json.loads returned
Parsed(s, res, p) ==
    IF HasProblems(res) THEN LaunchSecondary(s, res, p) ELSE Returned(s, res, p)

\* the main solve subprocess ends (src/app.py:135-160)
PrimaryDone(s, outcomes) ==
    /\ pc[s] = "primary_run"
    /\ \E o \in outcomes :
         IF o.kind = "timeout" THEN Raised(s, "TimeoutExpired", Ended("primary", o))
         ELSE IF o.kind = "oserror" THEN Raised(s, "OSError", Ended("primary", o))
         ELSE LET j == json_loads(o.stdout)
              IN  IF ~ j.decoded THEN Returned(s, Failure(s, o), Ended("primary", o))
                  ELSE IF ~ j.dict THEN Raised(s, "TypeError", Ended("primary", o))
                  ELSE Parsed(s, ("stats" :> [time_taken |-> now - proc[s].t0]) @@ j.value,
                              Ended("primary", o))

\* src/app.py:171-172, given error_lines after the loop
Explained(s, error_lines, p) ==
    IF error_lines.none THEN Raised(s, "TypeError", p)
    ELSE Returned(s, ("explained_problems" :> Join(error_lines.lines)) @@ partial[s].value, p)

\* the explanatory subprocess ends (src/app.py:161-172)
SecondaryDone(s, outcomes) ==
    /\ pc[s] = "secondary_run"
    /\ \E o \in outcomes :
         IF o.kind = "timeout" THEN Raised(s, "TimeoutExpired", Ended("secondary", o))
         ELSE IF o.kind = "oserror" THEN Raised(s, "OSError", Ended("secondary", o))
         ELSE Explained(s, ScanStderr(o.stderr, [none |-> TRUE]), Ended("secondary", o))

\* time passes while no script is running
Tick(deltas) ==
    /\ \A s \in Sessions : pc[s] \in {"closed", "idle"}
    /\ ticks < MaxTicks
    /\ \E d \in deltas : now' = now + d
    /\ ticks' = ticks + 1
    /\ UNCHANGED <<vline, vres, solve_cache, refresh_cache, pc, session_state, url_params,
                   call, proc, completed, partial, result, raised, shown, launched, runs>>

(***************************************************************************)
(* The inputs of the model                                                 *)
(***************************************************************************)
ManyLines == [i \in 1..(MAX_LINES_PER_REQUEST + 1) |-> "a"]

Urls ==
    { NoParams,
      [platform |-> "osx-64", channels |-> <<"conda-forge", "bioconda">>,
       packages |-> <<"numpy", "python=3">>, priority |-> "flexible"],
      [channels |-> <<"bioconda", "bioconda", "conda-forge">>, packages |-> <<"Numpy">>],
      [platform |-> "freebsd-64", channels |-> <<"conda-forge">>, packages |-> <<"numpy">>],
      [channels |-> <<"conda-forge", "evil">>, packages |-> <<"numpy">>],
      [priority |-> "bogus", channels |-> <<"conda-forge">>, packages |-> <<"numpy">>],
      [glibc |-> "1;x", channels |-> <<"conda-forge">>, packages |-> <<"numpy">>],
      [channels |-> <<"conda-forge">>, packages |-> ManyLines],
      [channels |-> <<"conda-forge">>, packages |-> <<"--file=x">>],
      [foo |-> "1"] }

Choices ==
    [platform |-> {"linux-64", "osx-64"},
     channels |-> {<<"conda-forge">>, <<"conda-forge", "bioconda">>,
                   <<"bioconda", "conda-forge">>},
     packages |-> {<<"numpy", "python=3">>, <<" python=3", "Numpy">>, <<"numpy", "a b">>,
                   <<"# numpy", "">>, ManyLines},
     priority |-> {"strict", "flexible"},
     cuda |-> {"12.0", ""}]

StderrExplained ==
    <<"warning  libmamba Cache file expired",
      "error    libmamba Could not solve for environment specs",
      "The following package could not be installed  ",
      "critical libmamba Could not solve for environment specs">>
StderrNoMarker == <<"warning  libmamba Cache file expired">>

RefreshOutcomes == {Exit(0, "", ""), Exit(1, "", "network unreachable"), TimedOut, NotStarted}
PrimaryOutcomes ==
    {Exit(0, JsonSuccess, ""), Exit(1, JsonConflict, ""), Exit(1, JsonOther, ""),
     Exit(0, JsonList, ""), Exit(137, NotJson, "Killed"), TimedOut, NotStarted}
SecondaryOutcomes ==
    {Exit(1, "", StderrExplained), Exit(1, "", StderrNoMarker), TimedOut, NotStarted}
Deltas == {TTL - 1, TTL}

(***************************************************************************)
(* Specifications                                                          *)
(***************************************************************************)
MainInit ==
    /\ now = 0
    /\ ticks = 0
    /\ solve_cache = {}
    /\ refresh_cache = {}
    /\ pc = [s \in Sessions |-> "closed"]
    /\ session_state = [s \in Sessions |-> NoParams]
    /\ url_params = [s \in Sessions |-> NoParams]
    /\ call = [s \in Sessions |-> NoCall]
    /\ proc = [s \in Sessions |-> NoProc]
    /\ completed = [s \in Sessions |-> NoProc]
    /\ partial = [s \in Sessions |-> NoPartial]
    /\ result = [s \in Sessions |-> NoResult]
    /\ raised = [s \in Sessions |-> "none"]
    /\ shown = [s \in Sessions |-> {}]
    /\ launched = [s \in Sessions |-> <<>>]
    /\ runs = 0

Init ==
    /\ MainInit
    /\ vline = <<>>
    /\ vres = Pending

\* what the sessions S can do, for the inputs and subprocess outcomes given
Step(S, urls, choices, refreshes, primaries, secondaries) ==
    \E s \in S :
        \/ Open(s, urls)
        \/ SetWidget(s, choices)
        \/ ClickRunSolve(s)
        \/ EnterSolve(s)
        \/ EnterRefresh(s)
        \/ RefreshDone(s, refreshes)
        \/ PrimaryDone(s, primaries)
        \/ SecondaryDone(s, secondaries)

FullUrl ==
    [platform |-> "osx-64", channels |-> <<"conda-forge", "bioconda">>,
     packages |-> <<"numpy", "python=3">>, priority |-> "flexible"]

\* one session, every URL and every widget; subprocesses that end well
Next ==
    Step({"s1"}, Urls, Choices,
         {Exit(0, "", "")},
         {Exit(0, JsonSuccess, ""), Exit(1, JsonConflict, "")},
         {Exit(1, "", StderrExplained)})

Spec == Init /\ [][Next]_vars

\* one session and one request, repeated; every subprocess outcome
NextSolve ==
    Step({"s1"}, {FullUrl},
         [packages |-> {<<"numpy", "python=3">>, <<" python=3", "Numpy">>}],
         RefreshOutcomes, PrimaryOutcomes, SecondaryOutcomes)

SpecSolve == Init /\ [][NextSolve]_vars

\* one session and two channels, in every order of specs and channels, with a
\* clock that passes the expiry of the caches between the runs
CacheChoices ==
    [packages |-> {<<"numpy", "python=3">>, <<" python=3", "Numpy">>,
                   <<"numpy", "python=3", "numpy">>},
     channels |-> {<<"conda-forge", "bioconda">>, <<"bioconda", "conda-forge">>}]

NextCache ==
    \/ Step({"s1"}, {FullUrl}, CacheChoices,
            {Exit(0, "", "")},
            {Exit(0, JsonSuccess, ""), Exit(1, JsonConflict, ""), TimedOut},
            {Exit(1, "", StderrExplained)})
    \/ Tick(Deltas)

SpecCache == Init /\ [][NextCache]_vars

\* two sessions that ask for the same solve, or for the same specs in another
\* order, at the same time
NextConc ==
    \/ Step(Sessions, {FullUrl},
            [packages |-> {<<"numpy", "python=3">>, <<" python=3", "Numpy">>}],
            {Exit(0, "", "")},
            {Exit(0, JsonSuccess, ""), Exit(1, JsonConflict, ""), TimedOut},
            {Exit(1, "", StderrExplained)})
    \/ \E s \in Sessions : Block(s)

SpecConc == Init /\ [][NextConc]_vars

(***************************************************************************)
(* validate_package as a function of its line: every line of up to         *)
(* MaxLineLen characters over LineAlphabet, and some longer ones.          *)
(***************************************************************************)
LineAlphabet == {"a", "A", " ", "-", "*", ":", "#", "@", "="}

RECURSIVE SeqsUpTo(_, _)
SeqsUpTo(S, n) ==
    IF n = 0 THEN {<<>>}
    ELSE LET shorter == SeqsUpTo(S, n - 1)
         IN  shorter \cup {Append(q, c) : q \in shorter, c \in S}

LongLines ==
    { [i \in 1..MAX_CHARS_PER_LINE |-> "a"],
      [i \in 1..(MAX_CHARS_PER_LINE + 1) |-> "a"],
      <<" ", " ">> \o [i \in 1..MAX_CHARS_PER_LINE |-> "a"] \o <<" ">>,
      Chars("conda-forge::numpy"), Chars("evil::numpy"), Chars(" python=3"),
      Chars("--file=x"), Chars("# numpy"),
      <<"h","t","t","p",":","/","/","a">>, <<"F","T","P",":","/","/","a">>,
      <<"n","u","m","p","y",">","=","1",".","1","8",".","1","=","*","p","y","3","8","*">>,
      <<"s","c","i","p","y","[","b","u","i","l","d","=","*","p","y","3","8","*","]">>,
      <<"a", "\t", "b">>, <<"\t", "a", "\t">> }

Lines == SeqsUpTo(LineAlphabet, MaxLineLen) \cup LongLines

InitValidate ==
    /\ MainInit
    /\ vline \in Lines
    /\ vres = Pending

Validate ==
    /\ vres = Pending
    /\ vres' = validate_package(vline)
    /\ UNCHANGED <<vline, now, ticks, solve_cache, refresh_cache, pc, session_state,
                   url_params, call, proc, completed, partial, result, raised, shown,
                   launched, runs>>

NextValidate == Validate

SpecValidate == InitValidate /\ [][NextValidate]_vars

(***************************************************************************)
(* The stderr scan of solve (src/app.py:161-171) as a function of the      *)
(* stderr lines: every stderr of up to MaxStderr lines over StderrLines.   *)
(***************************************************************************)
MaxStderr == 4

StderrLines ==
    {"warning  libmamba Cache file expired",
     "error    libmamba Could not solve for environment specs",
     "The following package could not be installed",
     "The following package could not be installed  ",
     "critical libmamba Could not solve for environment specs"}

InitScan ==
    /\ MainInit
    /\ vline \in SeqsUpTo(StderrLines, MaxStderr)
    /\ vres = Pending

\* src/app.py:161-171: the loop, then the join, which raises on None
Scan ==
    /\ vres = Pending
    /\ vres' = LET error_lines == ScanStderr(vline, [none |-> TRUE])
               IN  IF error_lines.none THEN [kind |-> "raised", exc |-> "TypeError"]
                   ELSE [kind |-> "explained", text |-> Join(error_lines.lines)]
    /\ UNCHANGED <<vline, now, ticks, solve_cache, refresh_cache, pc, session_state,
                   url_params, call, proc, completed, partial, result, raised, shown,
                   launched, runs>>

NextScan == Scan

SpecScan == InitScan /\ [][NextScan]_vars

(***************************************************************************)
(* validate_packages (src/app.py:263-275) as a function of the request's   *)
(* lines: up to MAX_LINES_PER_REQUEST + 2 specs with up to MaxBlank blank  *)
(* lines after them or before them.                                        *)
(***************************************************************************)
MaxBlank == 2

Requests ==
    LET specs(n) == [i \in 1..n |-> "a"]
        blanks(b) == [i \in 1..b |-> ""]
    IN  {specs(n) \o blanks(b) : n \in 0..(MAX_LINES_PER_REQUEST + 2), b \in 0..MaxBlank}
        \cup {blanks(b) \o specs(n) : n \in 0..(MAX_LINES_PER_REQUEST + 2), b \in 0..MaxBlank}

InitPackages ==
    /\ MainInit
    /\ vline \in Requests
    /\ vres = Pending

ValidateAll ==
    /\ vres = Pending
    /\ vres' = validate_packages(vline)
    /\ UNCHANGED <<vline, now, ticks, solve_cache, refresh_cache, pc, session_state,
                   url_params, call, proc, completed, partial, result, raised, shown,
                   launched, runs>>

NextPackages == ValidateAll

SpecPackages == InitPackages /\ [][NextPackages]_vars

(***************************************************************************)
(* Properties                                                              *)
(***************************************************************************)
RejectionReasons ==
    {"Line too long.", "Spaces not allowed in package spec",
     "Specified channel is not allowed.", "Invalid package spec", "URLs not allowed",
     "Wildcards not allowed", "Invalid characters in package spec"}

\* the line is blank, or its first character after the blanks is `#`
BlankOrComment(line) ==
    LET inked == {i \in DOMAIN line : line[i] \notin Whitespace}
    IN  inked = {} \/ line[Min(inked)] = "#"

\* C1: validate_package is total: for every raw line it returns nothing (only for
\* a blank or comment line), returns a line, or raises a ValueError with a reason;
\* and a line it returns holds no space, does not start with `-` or `*`, has no
\* `::` channel prefix outside the allow-list, and holds no character outside the
\* allowed set.
C1_ValidateTotalAndSafe ==
    vres # Pending =>
        /\ vres.kind \in {"none", "ok", "error"}
        /\ vres.kind = "none" => BlankOrComment(vline)
        /\ vres.kind = "error" => vres.reason \in RejectionReasons
        /\ vres.kind = "ok" =>
              /\ vres.line # <<>>
              /\ \A i \in DOMAIN vres.line : vres.line[i] # " "
              /\ vres.line[1] \notin {"-", "*"}
              /\ \A i \in 1..(Len(vres.line) - 1) :
                    (vres.line[i] = ":" /\ vres.line[i + 1] = ":"
                     /\ \A j \in 1..(i - 1) : ~ (vres.line[j] = ":" /\ vres.line[j + 1] = ":"))
                    => SubSeq(vres.line, 1, i - 1) \in AllowedChannelChars
              /\ \A i \in DOMAIN vres.line : vres.line[i] \in AllowedChars

\* a line was accepted after normalisation changed it
C1_Witness ==
    /\ vres.kind = "ok"
    /\ vres.line # vline
    /\ \E i \in DOMAIN vline : vline[i] = " "

\* the lines of a request that are not blank
NonEmptyLines(lines) == {i \in DOMAIN lines : strip(Chars(lines[i])) # <<>>}

\* a line that is no comment and starts with `-` or `*` or holds a space
BreaksARule(line) ==
    LET c == strip(line)
    IN  /\ ~ BlankOrComment(line)
        /\ (c[1] \in {"-", "*"} \/ \E j \in DOMAIN c : c[j] = " ")

ValidationReasons ==
    RejectionReasons
    \cup {"Too many packages requested. Maximum is 25. ", "No valid packages specified."}

NothingLaunched(s) ==
    /\ launched[s] = <<>>
    /\ proc[s] = NoProc
    /\ pc[s] \in {"closed", "idle"}
    /\ result[s] = NoResult

\* C2: in a request whose package lines fail validation (a line that breaks a
\* rule, more than 25 non-empty lines, or any request the script answers with a
\* validation error) no subprocess is launched: neither the repodata refresh nor
\* the solve is started in that run.
C2_NoSubprocessOnInvalidRequest ==
    \A s \in Sessions :
        /\ shown[s] \cap ValidationReasons # {} => NothingLaunched(s)
        /\ "packages" \in DOMAIN session_state[s] =>
              LET lines == session_state[s].packages
              IN  (\/ Cardinality(NonEmptyLines(lines)) > MAX_LINES_PER_REQUEST
                   \/ \E i \in DOMAIN lines : BreaksARule(Chars(lines[i])))
                  => NothingLaunched(s)

\* a request of 26 non-empty lines was answered with the validation error
C2_Witness ==
    \E s \in Sessions :
        /\ "packages" \in DOMAIN session_state[s]
        /\ Cardinality(NonEmptyLines(session_state[s].packages)) = MAX_LINES_PER_REQUEST + 1
        /\ "Too many packages requested. Maximum is 25. " \in shown[s]

\* the arguments that follow the option `flag` in a command line
ArgsAfter(argv, flag) == {argv[i + 1] : i \in {j \in 1..(Len(argv) - 1) : argv[j] = flag}}

\* C3: in every command that is executed the platform is in ALLOWED_PLATFORMS,
\* every channel is in ALLOWED_CHANNELS and the priority is in
\* ALLOWED_PRIORITIES, whatever the URL parameters and the user's inputs; a URL
\* value outside these enumerations is reported as an error.
C3_OnlyAllowedValuesReachSolver ==
    \A s \in Sessions :
        /\ proc[s].kind # "none" =>
              /\ ArgsAfter(proc[s].argv, "--platform") # {}
              /\ ArgsAfter(proc[s].argv, "--platform") \subseteq Range(ALLOWED_PLATFORMS)
              /\ ArgsAfter(proc[s].argv, "--channel") # {}
              /\ ArgsAfter(proc[s].argv, "--channel") \subseteq Range(ALLOWED_CHANNELS)
              /\ proc[s].kind # "refresh" =>
                    /\ ArgsAfter(proc[s].argv, "--channel-priority") # {}
                    /\ ArgsAfter(proc[s].argv, "--channel-priority")
                          \subseteq Range(ALLOWED_PRIORITIES)
        /\ LET url == url_params[s]
           IN  /\ ("platform" \in DOMAIN url /\ url.platform # ""
                     /\ url.platform \notin Range(ALLOWED_PLATFORMS))
                  => {"Invalid platform", "Invalid URL params"} \subseteq shown[s]
               /\ ("channels" \in DOMAIN url
                     /\ \E i \in DOMAIN url.channels :
                            url.channels[i] \notin Range(ALLOWED_CHANNELS))
                  => {"Invalid channel", "Invalid URL params"} \subseteq shown[s]
               /\ ("priority" \in DOMAIN url /\ url.priority # ""
                     /\ url.priority \notin Range(ALLOWED_PRIORITIES))
                  => {"Invalid channel priority", "Invalid URL params"} \subseteq shown[s]

\* a session opened with an invalid platform in its URL reaches the solver once
\* the user has filled the sidebar: the error is on the page, the command runs
C3_Witness ==
    \E s \in Sessions :
        /\ proc[s].kind = "primary"
        /\ "Invalid platform" \in shown[s]

\* the run's last subprocess to end was `of`
EndedOf(s, of) == "of" \in DOMAIN completed[s] /\ completed[s].of = of

Last(q) == q[Len(q)]

\* C7: whenever the primary output reports a conflict, solve returns that
\* Conflict result with its solver_problems whatever happens in the secondary
\* call (timeout, failure to launch, no marker line in its stderr): the result
\* is returned without the explanation and no error is raised.
C7_ConflictSurvivesSecondary ==
    \A s \in Sessions :
        (pc[s] = "idle" /\ launched[s] # <<>> /\ Last(launched[s]) = "secondary") =>
            /\ raised[s] = "none"
            /\ result[s].kind = "value"
            /\ HasProblems(result[s].value)

\* the outputs of the primary call that json.loads turns into an object
JsonObjects == {JsonSuccess, JsonConflict, JsonOther}

\* C8: for every stdout of the primary call that does not parse into the
\* expected structure, solve returns a Failure result that carries the stdout,
\* stderr, return code, command line, virtual packages and elapsed time, and it
\* never raises.
C8_MalformedStdoutIsFailure ==
    \A s \in Sessions :
        (/\ pc[s] = "idle"
         /\ EndedOf(s, "primary")
         /\ completed[s].kind = "exit"
         /\ completed[s].stdout \notin JsonObjects) =>
            /\ raised[s] = "none"
            /\ result[s].kind = "value"
            /\ {"stdout", "stderr", "returncode", "cmd", "virtual_packages", "stats"}
                  \subseteq DOMAIN result[s].value
            /\ result[s].value.success = FALSE
            /\ result[s].value.stdout = completed[s].stdout
            /\ result[s].value.stderr = completed[s].stderr
            /\ result[s].value.returncode = completed[s].returncode
            /\ result[s].value.cmd = SolveCmd(call[s])
            /\ result[s].value.virtual_packages = call[s].virtual_packages

\* C9: a timeout of the primary call ends the request with the "Solver timed
\* out" condition: solve produces no result for it (none returned, none
\* cached), no further subprocess is launched in the request, and the primary
\* call was made once.
C9_PrimaryTimeoutIsDistinct ==
    \A s \in Sessions :
        (EndedOf(s, "primary") /\ completed[s].kind = "timeout") =>
            /\ pc[s] = "idle"
            /\ proc[s] = NoProc
            /\ raised[s] = "TimeoutExpired"
            /\ "Solver timed out." \in shown[s]
            /\ "Unknown error!" \notin shown[s]
            /\ result[s] = NoResult
            /\ \A e \in solve_cache : e.key # SolveKey(call[s])
            /\ Last(launched[s]) = "primary"
            /\ Cardinality({i \in DOMAIN launched[s] : launched[s][i] = "primary"}) = 1

\* the primary call of a request has timed out
C9_Witness ==
    \E s \in Sessions :
        /\ EndedOf(s, "primary")
        /\ completed[s].kind = "timeout"
        /\ launched[s] = <<"refresh", "primary">>

\* C10: when the refresh subprocess exits with a non-zero code, the failure is
\* shown as a warning and the request goes on to launch the main solve; it is
\* not aborted.
C10_RefreshFailureIsWarning ==
    \A s \in Sessions :
        (/\ EndedOf(s, "refresh")
         /\ completed[s].kind = "exit"
         /\ completed[s].returncode # 0) =>
            /\ pc[s] = "primary_run"
            /\ proc[s].kind = "primary"
            /\ launched[s] = <<"refresh", "primary">>
            /\ "Failed to refresh repodata!" \in shown[s]
            /\ raised[s] = "none"

\* the refresh of a request has exited with code 1 and its solve is running
C10_Witness ==
    \E s \in Sessions :
        /\ EndedOf(s, "refresh")
        /\ completed[s].kind = "exit"
        /\ completed[s].returncode = 1
        /\ proc[s].kind = "primary"

\* the specs of a request: its lines without the blank ones and the comments,
\* trimmed and in lower case
RequestSpecs(lines) ==
    LET kept == {i \in DOMAIN lines : ~ BlankOrComment(Chars(lines[i]))}
    IN  [i \in kept |-> lower(strip(Chars(lines[i])))]

\* how often spec x is asked for by f, a function onto specs as characters
Times(f, x) == Cardinality({i \in DOMAIN f : f[i] = x})

\* a cached call was for the specs of these lines, each as often, in any order
SameSpecs(cached, lines) ==
    LET a == [i \in DOMAIN cached |-> Chars(cached[i])]
        b == RequestSpecs(lines)
    IN  \A x \in Range(a) \cup Range(b) : Times(a, x) = Times(b, x)

\* a cached call was for the set of specs of these lines
SameSetOfSpecs(cached, lines) ==
    {Chars(cached[i]) : i \in DOMAIN cached} = Range(RequestSpecs(lines))

\* the rest of a cached key is that of the session's call
SameOptions(key, s) ==
    /\ key[3] = call[s].platform
    /\ key[4] = call[s].priority
    /\ key[5] = call[s].virtual_packages

InWindow(e) == now >= e.createdAt /\ now - e.createdAt < TTL

\* past the cache lookups of solve: about to start or waiting for a subprocess
Launching == {"refresh_wait", "refresh_run", "primary_run", "secondary_run"}

\* the run of s was answered from solve's cache
AnsweredFromCache(s) ==
    /\ pc[s] = "idle"
    /\ call[s].kind = "solve"
    /\ launched[s] = <<>>
    /\ result[s].kind = "value"

C5_ExpiresAtTTL ==
    \A s \in Sessions :
        /\ pc[s] \in Launching =>
              \A e \in solve_cache :
                    e.key = SolveKey(call[s]) => now - e.createdAt >= TTL
        /\ AnsweredFromCache(s) =>
              \E e \in solve_cache :
                    /\ e.key = SolveKey(call[s])
                    /\ e.value = result[s].value
                    /\ result[s].at >= e.createdAt
                    /\ result[s].at - e.createdAt < TTL

\* the result of a request has expired and the request, repeated, has started
\* the solver again
C5_Witness ==
    \E s \in Sessions :
        /\ pc[s] = "primary_run"
        /\ \E e \in solve_cache :
              /\ e.key = SolveKey(call[s])
              /\ now - e.createdAt = TTL

\* two sessions have a subprocess of solve running for the same arguments
TwoInFlight ==
    \E s, o \in Sessions :
        /\ s # o
        /\ proc[s].kind # "none"
        /\ proc[o].kind # "none"
        /\ SolveKey(call[s]) = SolveKey(call[o])

\* a run that waited for another's solve ends with a result and starts nothing
WaitersReuse ==
    \A s \in Sessions :
        pc[s] = "solve_blocked" =>
            \/ pc'[s] = "solve_blocked"
            \/ /\ pc'[s] = "idle"
               /\ result'[s].kind = "value"
               /\ launched'[s] = <<>>

\* C6 as stated: when several requests with the same key run concurrently, at
\* most one solver subprocess for the key is in flight at any time, and the
\* other requests wait for and reuse that result instead of launching their
\* own subprocess.
C6_CoalescedAndReused == [](~ TwoInFlight) /\ [][WaitersReuse]_vars

\* a run that waited goes on as the cache then tells it: with the stored result
\* of the solve it waited for, or, nothing being stored because that solve
\* raised, into its own computation while no other one for the key is running
WaitersReuseOrRecompute ==
    \A s \in Sessions :
        (pc[s] = "solve_blocked" /\ pc'[s] # "solve_blocked") =>
            LET stored == {e \in solve_cache : e.key = SolveKey(call[s]) /\ InWindow(e)}
            IN  IF stored # {}
                THEN /\ pc'[s] = "idle"
                     /\ launched'[s] = <<>>
                     /\ result'[s].kind = "value"
                     /\ \E e \in stored : result'[s].value = e.value
                ELSE /\ pc'[s] \in {"refresh_wait", "primary_run"}
                     /\ result'[s] = NoResult
                     /\ \A o \in Sessions \ {s} :
                           pc[o] \in Launching => SolveKey(call[o]) # SolveKey(call[s])

\* C6: when several requests with the same arguments of solve run concurrently,
\* at most one subprocess for them is in flight at any time; a request that
\* waited reuses the result if the solve it waited for returned one, and runs
\* its own solve, alone, if that solve raised and so stored nothing.
C6_CoalescedReusedOrRecomputed == [](~ TwoInFlight) /\ [][WaitersReuseOrRecompute]_vars

\* a request waits while another session's solver runs for the same arguments
C6_Witness ==
    \E s, o \in Sessions :
        /\ pc[s] = "solve_blocked"
        /\ proc[o].kind = "primary"
        /\ SolveKey(call[o]) = SolveKey(call[s])

\* the stderr lines that hold the marker
MarkerLines(lines) == {i \in DOMAIN lines : Contains(Chars(lines[i]), Chars(Marker))}

\* the lines strictly between the first marker line and the next one, or the end
Between(lines) ==
    LET first == Min(MarkerLines(lines))
        later == {i \in MarkerLines(lines) : i > first}
        stop == IF later = {} THEN Len(lines) + 1 ELSE Min(later)
    IN  SubSeq(lines, first + 1, stop - 1)

\* lines with a line break between each two
Broken(lines) ==
    [i \in 1..(IF lines = <<>> THEN 0 ELSE 2 * Len(lines) - 1) |->
        IF i % 2 = 1 THEN lines[(i + 1) \div 2] ELSE "\n"]

\* C11 as stated: for any stderr with a marker line, explained_problems is
\* exactly the stderr lines strictly after the first marker line and before the
\* next marker line (or the end), in order, joined by newline.
C11_ExactLinesBetweenMarkers ==
    (vres # Pending /\ MarkerLines(vline) # {}) =>
        /\ vres.kind = "explained"
        /\ vres.text = Broken(Between(vline))

\* C11: for any stderr with a marker line, explained_problems is the stderr
\* lines strictly after the first marker line and before the next marker line
\* (or the end), each without its trailing whitespace, in order, joined by
\* newline.
C11_TrimmedLinesBetweenMarkers ==
    (vres # Pending /\ MarkerLines(vline) # {}) =>
        /\ vres.kind = "explained"
        /\ vres.text = Broken([i \in DOMAIN Between(vline) |->
                                  Name(rstrip(Chars(Between(vline)[i])))])

\* two explanation lines between two marker lines gave those two lines
C11_Witness ==
    /\ vres # Pending
    /\ Len(vline) = 4
    /\ MarkerLines(vline) = {1, 4}
    /\ vres.kind = "explained"
    /\ Len(vres.text) = 3
    /\ vres.text[2] = "\n"

\* where the first `::` of a line starts, 0 if it has none
Separator(line) ==
    LET at == {i \in 1..(Len(line) - 1) : line[i] = ":" /\ line[i + 1] = ":"}
    IN  IF at = {} THEN 0 ELSE Min(at)

\* the line as validate_package sees it: trimmed, in lower case
Normal(line) == lower(strip(line))

\* apart from its `::` the line breaks no rule: it is no comment, not too long,
\* and what follows the `::` is not empty and made of allowed characters
RestIsFine(line) ==
    LET rest == SubSeq(line, Separator(line) + 2, Len(line))
    IN  /\ line[1] # "#"
        /\ Len(line) <= MAX_CHARS_PER_LINE
        /\ rest # <<>>
        /\ \A i \in DOMAIN rest : rest[i] \in AllowedChars

\* C12: a line `<channel>::<rest>` is rejected when <channel> is not in the
\* channel allow-list, and is accepted and returned when <channel> is in the
\* allow-list and the line breaks none of the other rules, as
\* `conda-forge::numpy`.
C12_ChannelQualifiedLine ==
    (vres # Pending /\ Separator(Normal(vline)) > 0) =>
        LET line == Normal(vline)
            channel == SubSeq(line, 1, Separator(line) - 1)
        IN  /\ (channel \notin AllowedChannelChars /\ line[1] # "#") => vres.kind = "error"
            /\ (channel \in AllowedChannelChars /\ RestIsFine(line)) => vres = OkLine(line)

\* C13: the request-size limit counts non-empty lines only: validate_packages
\* rejects a request for its size exactly when it has more than 25 non-empty
\* lines, blank lines being left out of the count.
C13_LimitCountsNonEmptyLines ==
    vres # Pending =>
        ((vres.kind = "error" /\ vres.reason = "Too many packages requested. Maximum is 25. ")
         <=> Cardinality(NonEmptyLines(vline)) > MAX_LINES_PER_REQUEST)

\* C14: validation is idempotent: for every line validate_package accepts,
\* validating the returned spec again accepts it and returns it unchanged.
C14_ValidateIdempotent ==
    (vres # Pending /\ vres.kind = "ok") => validate_package(vres.line) = OkLine(vres.line)

\* a line with a leading blank and a capital letter was accepted
C14_Witness ==
    /\ vres # Pending
    /\ vres.kind = "ok"
    /\ vline[1] \in Whitespace
    /\ \E i \in DOMAIN vline : vline[i] \in Range(UpperLetters)

\* the refresh cache holds, within its TTL, a refresh for the platform and the
\* set of channels of the solve call of s
RefreshIsCached(s) ==
    \E e \in refresh_cache :
        /\ InWindow(e)
        /\ e.key[2] = call[s].platform
        /\ Range(e.key[1]) = Range(call[s].channels)

\* C15: every launch of the main solver subprocess is preceded, within the same
\* solve call, by a refresh_repodata for the same platform and the same set of
\* channels that has returned: its subprocess, started first and for these
\* arguments, has exited, or the refresh was answered from its cache.
C15_RefreshBeforeSolve ==
    \A s \in Sessions :
        /\ proc[s].kind = "refresh" =>
              /\ launched[s] = <<"refresh">>
              /\ ArgsAfter(proc[s].argv, "--platform") = {call[s].platform}
              /\ ArgsAfter(proc[s].argv, "--channel") = Range(call[s].channels)
        /\ proc[s].kind = "primary" =>
              \/ /\ launched[s] = <<"refresh", "primary">>
                 /\ EndedOf(s, "refresh")
                 /\ completed[s].kind = "exit"
                 /\ RefreshIsCached(s)
              \/ /\ launched[s] = <<"primary">>
                 /\ RefreshIsCached(s)

\* the main solver runs after the refresh subprocess of the same call exited
C15_Witness ==
    \E s \in Sessions :
        /\ proc[s].kind = "primary"
        /\ launched[s] = <<"refresh", "primary">>
        /\ EndedOf(s, "refresh")
        /\ completed[s].kind = "exit"
        /\ completed[s].returncode = 0

\* C16: the repodata refresh is cached per (sorted channels, platform) with its
\* own TTL, apart from the solve cache: once a refresh subprocess for a key has
\* completed, solves with other specs, or with the same channels in another
\* order, start no refresh subprocess for the key until 3600 s have passed, and
\* a solve skips the refresh subprocess only while such a refresh is cached.
C16_RefreshCachedPerSortedChannels ==
    \A s \in Sessions :
        /\ pc[s] = "refresh_run" =>
              \A e \in refresh_cache :
                    (e.key[2] = call[s].platform /\ Range(e.key[1]) = Range(call[s].channels))
                    => now - e.createdAt >= TTL
        /\ (proc[s].kind = "primary" /\ Head(launched[s]) = "primary") =>
              \E e \in refresh_cache :
                    /\ e.key[2] = call[s].platform
                    /\ Range(e.key[1]) = Range(call[s].channels)
                    /\ now >= e.createdAt
                    /\ now - e.createdAt < TTL

\* a solve that missed the solve cache, its channels in another order than
\* the cached refresh has them, started the solver without a refresh
C16_Witness ==
    \E s \in Sessions :
        /\ proc[s].kind = "primary"
        /\ launched[s] = <<"primary">>
        /\ \E e \in refresh_cache :
              /\ Range(e.key[1]) = Range(call[s].channels)
              /\ e.key[1] # call[s].channels
              /\ e.key[2] = call[s].platform
              /\ InWindow(e)

\* the solver commands: the primary call and the explanatory one
SolverCalls == {"primary", "secondary"}

\* the options and flags of the commands
Options ==
    {"--dry-run", "--name", "--repodata-ttl", "--platform", "--override-channels",
     "--channel-priority", "--channel", "--json", "--quiet"}

\* the arguments are the request's specs, each as often, in sorted order, and
\* none of them is an option or starts like one
SortedSpecsOf(args, s) ==
    /\ \A i \in DOMAIN args : args[i] \notin Options
    /\ \A i \in DOMAIN args : Chars(args[i])[1] # "-"
    /\ SameSpecs(args, session_state[s].packages)
    /\ \A i, j \in DOMAIN args : i < j => ~ TextLess(args[j], args[i])

HowManySpecs(s) == Cardinality(DOMAIN RequestSpecs(session_state[s].packages))

OverrideName ==
    [cuda |-> "CONDA_OVERRIDE_CUDA", glibc |-> "CONDA_OVERRIDE_GLIBC",
     linux |-> "CONDA_OVERRIDE_LINUX", osx |-> "CONDA_OVERRIDE_OSX",
     win |-> "CONDA_OVERRIDE_WIN"]

\* C18: the environment passed to the solver is the ambient environment plus
\* overrides: CONDA_OVERRIDE_<KEY> is set to the value of every virtual package
\* whose value is not empty, is not set for one whose value is empty, and every
\* other ambient variable is passed unchanged.
C18_EnvIsAmbientPlusOverrides ==
    \A s \in Sessions :
        proc[s].kind \in SolverCalls =>
            LET env == proc[s].env
                vp == call[s].virtual_packages
            IN  /\ \A k \in DOMAIN vp :
                      IF vp[k] # ""
                      THEN OverrideName[k] \in DOMAIN env /\ env[OverrideName[k]] = vp[k]
                      ELSE OverrideName[k] \notin DOMAIN env
                /\ \A n \in DOMAIN AmbientEnv : n \in DOMAIN env /\ env[n] = AmbientEnv[n]
                /\ DOMAIN env \subseteq DOMAIN AmbientEnv \cup {OverrideName[k] : k \in DOMAIN vp}

\* the solver runs with an empty `__cuda` and a set `__glibc`
C18_Witness ==
    \E s \in Sessions :
        /\ proc[s].kind = "primary"
        /\ "cuda" \in DOMAIN call[s].virtual_packages
        /\ call[s].virtual_packages.cuda = ""
        /\ "CONDA_OVERRIDE_CUDA" \notin DOMAIN proc[s].env
        /\ "CONDA_OVERRIDE_GLIBC" \in DOMAIN proc[s].env
        /\ proc[s].env["CONDA_OVERRIDE_GLIBC"] = "2.17"
        /\ proc[s].env["PATH"] = AmbientEnv["PATH"]

\* the solve call of s ended in a timeout or a failure to start a process
EndedInError(s) ==
    pc[s] = "idle" /\ raised[s] \in {"TimeoutExpired", "OSError"}

\* nothing is stored for the arguments of the solve call of s
NothingStored(s) == \A e \in solve_cache : e.key # SolveKey(call[s])

\* the same request again, after a call that ended in such an error, is a miss
RepeatedAfterErrorMisses ==
    \A s \in Sessions :
        (EndedInError(s) /\ runs' = runs + 1 /\ call'[s] = call[s]) =>
            /\ pc'[s] = "solve_wait"
            /\ result'[s] = NoResult
            /\ raised'[s] = "none"
            /\ {"Solver timed out.", "Unknown error!"} \cap shown'[s] = {}

\* C19: only completed solves are cached: a solve call that ends in a timeout
\* or a process-launch error stores nothing in the solve cache, so the next
\* identical request, even within the TTL, is a miss that goes on to start the
\* subprocesses again and does not show the error again.
C19_ErrorsAreNotCached ==
    /\ [](\A s \in Sessions :
            /\ EndedInError(s) => NothingStored(s)
            /\ pc[s] = "solve_wait" => NothingStored(s)
            /\ \A e \in solve_cache : "success" \in DOMAIN e.value /\ "error" \notin DOMAIN e.value)
    /\ [][RepeatedAfterErrorMisses]_vars

\* a request runs the solver again, within the TTL of the refresh that an
\* earlier call for the same arguments completed before it raised
C19_Witness ==
    \E s \in Sessions :
        /\ proc[s].kind = "primary"
        /\ launched[s] = <<"primary">>
        /\ NothingStored(s)
        /\ RefreshIsCached(s)
        /\ now < TTL

====
